---- MODULE Spec2Model ----
(***************************************************************************)
(* State-machine model of the tonescope analysis engine                    *)
(* (src/src/utils/audioUtils.js) and of the detection loop, the toggles    *)
(* and the configuration handler of src/src/App.jsx.                       *)
(*                                                                         *)
(* Numbers.  The JavaScript code computes in doubles; the model computes   *)
(* in exact integers:                                                      *)
(*   - the Krumhansl-Schmuckler weights are held times 100 (6.35 -> 635);  *)
(*   - the observed note profile count/total is held as its numerator      *)
(*     count, the common denominator total being carried separately, so a  *)
(*     correlation c of the code is the integer bestCorrelation with       *)
(*     c = bestCorrelation / (100 * total);                                *)
(*   - a BPM value is a fraction <<numerator, denominator>>;               *)
(*   - Math.round(a / b) for a, b >= 0 is (2a + b) \div 2b.                *)
(***************************************************************************)
EXTENDS Integers, Sequences, FiniteSets, TLC

VARIABLES
    keyDetector,        \* the KeyDetector instance: noteHistory, keyVotes, keyVoteHistory
    keyResult,          \* what the last detectKey() call returned
    freshKeyDetector,   \* a KeyDetector constructed at the last clear(), fed the same calls
    incrementalKeyDetector, \* a KeyDetector keeping keyVotes as counters, fed the caller's calls
    beatDetector,       \* the BeatDetector instance
    beatResult,         \* what the last detectBeat() call returned
    freshBeatDetector,  \* a BeatDetector constructed at the last reset(), fed the same calls
    pitchDetector,      \* the PitchDetector instance: analyser size, bufferLength, buffer
    fftSize,            \* the fftSize state of App
    now,                \* Date.now(), in ms
    lastOp,             \* the call that produced the current state
    env,                \* the caller: which calls it makes, and how many it has made
    appState,           \* App: the feature toggles, and what the detection loop holds
    call,               \* a call of autoCorrelate or frequencyToNote, with its arguments
    pitch,              \* what autoCorrelate returned
    noteInfo            \* what frequencyToNote returned

keyVars == <<keyDetector, keyResult, freshKeyDetector, incrementalKeyDetector>>
beatVars == <<beatDetector, beatResult, freshBeatDetector>>
pureVars == <<call, pitch, noteInfo>>
vars == <<keyDetector, keyResult, freshKeyDetector, incrementalKeyDetector, beatDetector,
          beatResult,
          freshBeatDetector, pitchDetector, fftSize, now, lastOp, env, appState, call,
          pitch,
          noteInfo>>

(***************************************************************************)
(* Generic helpers                                                         *)
(***************************************************************************)
RECURSIVE SumTo(_, _)
SumTo(f, n) == IF n < 0 THEN 0 ELSE f[n] + SumTo(f, n - 1)

\* the sum of the first n elements of a sequence, taken by halves: integer
\* addition is associative, and the evaluation stays shallow on long buffers
RECURSIVE SumRange(_, _, _)
SumRange(s, lo, hi) ==
    IF lo > hi THEN 0
    ELSE IF lo = hi THEN s[lo]
    ELSE SumRange(s, lo, (lo + hi) \div 2) + SumRange(s, ((lo + hi) \div 2) + 1, hi)

SumSeq(s, n) == SumRange(s, 1, n)

Count(s, x) == Cardinality({i \in 1..Len(s) : s[i] = x})

Min(a, b) == IF a < b THEN a ELSE b
Max(a, b) == IF a > b THEN a ELSE b

\* Math.round(num / den) for num >= 0, den > 0
Round(num, den) == (2 * num + den) \div (2 * den)

\* push without the shift
PushOnly(array, item, capacity) == Append(array, item)

\* push, then drop the entry before the pushed one instead of the oldest
PushDropNewest(array, item, capacity) ==
    IF Len(array) >= capacity
    THEN Append(SubSeq(array, 1, Len(array) - 1), item)
    ELSE Append(array, item)

\* Array.prototype.push followed by the shift() of the code when the array
\* has grown beyond its capacity
PushShift(array, item, capacity) ==
    LET pushed == Append(array, item)
    IN  IF Len(pushed) > capacity THEN Tail(pushed) ELSE pushed

(***************************************************************************)
(* KeyDetector                                                             *)
(***************************************************************************)
maxHistory == 50
maxKeyVotes == 30
MinNotes == 10

noteNames == <<"C", "C#", "D", "D#", "E", "F", "F#", "G", "G#", "A", "A#", "B">>

\* const noteMap = { 'C': 0, 'C#': 1, ... }
noteMap == [n \in {noteNames[i] : i \in 1..12} |-> CHOOSE i \in 0..11 : noteNames[i + 1] = n]

majorProfile ==
    [i \in 0..11 |-> <<635, 223, 348, 233, 438, 409, 252, 519, 239, 366, 229, 288>>[i + 1]]
minorProfile ==
    [i \in 0..11 |-> <<633, 268, 352, 538, 260, 353, 254, 475, 398, 269, 334, 317>>[i + 1]]

\* a falsy noteName ("" or undefined): addNote returns at once
Falsy == ""

NewKeyDetector == [noteHistory |-> <<>>, keyVotes |-> <<>>, keyVoteHistory |-> <<>>]

NoResult == [called |-> FALSE]
CollectingData == [key |-> "Collecting data...", confidence |-> 0]

addNote(kd, noteName) ==
    IF noteName = Falsy
    THEN kd
    ELSE [kd EXCEPT !.noteHistory = PushShift(kd.noteHistory, noteName, maxHistory)]

correlate(profile1, profile2, offset) ==
    SumTo([i \in 0..11 |-> profile1[i] * profile2[(i + offset) % 12]], 11)

getMaxCorrelation == SumTo(majorProfile, 11)

\* the noteHistory.forEach count of lines 139-146
noteCounts(noteHistory) ==
    [i \in 0..11 |->
        Cardinality({k \in 1..Len(noteHistory) :
            noteHistory[k] \in DOMAIN noteMap /\ noteMap[noteHistory[k]] = i})]

\* the label changes on a correlation that is not smaller: the last of several
\* equal ones is kept
betterOrEqual(best, label, corr) ==
    IF corr >= best.bestCorrelation
    THEN [bestKey |-> label, bestCorrelation |-> corr]
    ELSE best

\* one test of the keys.forEach loop: the label changes on a strict improvement
better(best, label, corr) ==
    IF corr > best.bestCorrelation
    THEN [bestKey |-> label, bestCorrelation |-> corr]
    ELSE best

\* keys.forEach of lines 158-176, from key index k on
RECURSIVE bestFrom(_, _, _)
bestFrom(noteProfile, k, best) ==
    IF k > 11
    THEN best
    ELSE LET key == noteNames[k + 1]
             majorCorr == correlate(noteProfile, majorProfile, k)
             afterMajor == better(best, key \o " Major", majorCorr)
             minorCorr == correlate(noteProfile, minorProfile, k)
             afterMinor == better(afterMajor, key \o " Minor", minorCorr)
         IN  bestFrom(noteProfile, k + 1, afterMinor)

\* this.keyVotes[key] = (this.keyVotes[key] || 0) + 1; keyVotes is held as the
\* object's entries in insertion order, which is the order Object.entries gives
\* the count of a key already seen is left as it is
tallyOnce(votes, key) ==
    IF \E i \in 1..Len(votes) : votes[i].key = key
    THEN votes
    ELSE Append(votes, [key |-> key, votes |-> 1])

tally(votes, key) ==
    IF \E i \in 1..Len(votes) : votes[i].key = key
    THEN [i \in 1..Len(votes) |->
            IF votes[i].key = key
            THEN [key |-> key, votes |-> votes[i].votes + 1]
            ELSE votes[i]]
    ELSE Append(votes, [key |-> key, votes |-> 1])

\* the rebuild of lines 190-193, over the entries n+1.. of the history
RECURSIVE rebuildVotes(_, _, _)
rebuildVotes(history, n, votes) ==
    IF n >= Len(history)
    THEN votes
    ELSE rebuildVotes(history, n + 1, tally(votes, history[n + 1]))

\* the last entry with no fewer votes than all before it
RECURSIVE consensusFromLatest(_, _, _)
consensusFromLatest(votes, n, best) ==
    IF n >= Len(votes)
    THEN best
    ELSE consensusFromLatest(votes, n + 1,
            IF votes[n + 1].votes >= best.maxVotes
            THEN [consensusKey |-> votes[n + 1].key, maxVotes |-> votes[n + 1].votes]
            ELSE best)

\* lines 196-203: the first entry with strictly more votes than all before it
RECURSIVE consensusFrom(_, _, _)
consensusFrom(votes, n, best) ==
    IF n >= Len(votes)
    THEN best
    ELSE consensusFrom(votes, n + 1,
            IF votes[n + 1].votes > best.maxVotes
            THEN [consensusKey |-> votes[n + 1].key, maxVotes |-> votes[n + 1].votes]
            ELSE best)

\* Array.prototype.sort((a, b) => b.confidence - a.confidence): a stable sort,
\* descending; entry e goes behind every entry that is not smaller
insertSorted(sorted, e) ==
    LET ahead == Cardinality({i \in 1..Len(sorted) : sorted[i].confidence >= e.confidence})
    IN  SubSeq(sorted, 1, ahead) \o <<e>> \o SubSeq(sorted, ahead + 1, Len(sorted))

RECURSIVE sortDescending(_, _, _)
sortDescending(entries, n, sorted) ==
    IF n >= Len(entries)
    THEN sorted
    ELSE sortDescending(entries, n + 1, insertSorted(sorted, entries[n + 1]))

\* voteHistogram with the share taken of the capacity of keyVoteHistory, not of
\* its length
voteHistogramOfCapacity(votes, historyLength) ==
    sortDescending(
        [i \in 1..Len(votes) |->
            [key |-> votes[i].key,
             confidence |-> IF historyLength > 0
                            THEN Round(votes[i].votes * 100, maxKeyVotes)
                            ELSE 0]],
        0, <<>>)

voteHistogram(votes, historyLength) ==
    sortDescending(
        [i \in 1..Len(votes) |->
            [key |-> votes[i].key,
             confidence |-> IF historyLength > 0
                            THEN Round(votes[i].votes * 100, historyLength)
                            ELSE 0]],
        0, <<>>)

\* one note fewer is taken to be enough
collectingBelowNine(noteHistory) == Len(noteHistory) < MinNotes - 1

\* if (this.noteHistory.length < 10)
collecting(noteHistory) == Len(noteHistory) < MinNotes

\* detectKey(): the detector after the call and the value returned
detectKey(kd) ==
    IF collecting(kd.noteHistory)
    THEN [kd |-> kd, result |-> CollectingData]
    ELSE
    LET counts == noteCounts(kd.noteHistory)
        total == SumTo(counts, 11)
        best == bestFrom(counts, 0, [bestKey |-> "", bestCorrelation |-> -1])
        \* (bestCorrelation / maxCorrelation) * 100, clamped to 0..100 and rounded
        confidence ==
            IF best.bestCorrelation <= 0 THEN 0
            ELSE IF best.bestCorrelation * 100 >= 100 * total * getMaxCorrelation THEN 100
            ELSE Round(best.bestCorrelation * 100, total * getMaxCorrelation)
        history == PushShift(kd.keyVoteHistory, best.bestKey, maxKeyVotes)
        votes == rebuildVotes(history, 0, <<>>)
        consensus == consensusFrom(votes, 0, [consensusKey |-> best.bestKey, maxVotes |-> 0])
        consensusConfidence ==
            IF Len(history) > 0 THEN Round(consensus.maxVotes * 100, Len(history)) ELSE 0
    IN  [kd |-> [kd EXCEPT !.keyVoteHistory = history, !.keyVotes = votes],
         result |-> [key |-> best.bestKey,
                     confidence |-> confidence,
                     consensusKey |-> consensus.consensusKey,
                     consensusConfidence |-> consensusConfidence,
                     histogram |-> voteHistogram(votes, Len(history))]]

\* the counter of a label going down by one as its oldest vote leaves the
\* history, the label leaving keyVotes with its last vote
untally(votes, key) ==
    LET left == [i \in 1..Len(votes) |->
                    IF votes[i].key = key
                    THEN [key |-> key, votes |-> votes[i].votes - 1]
                    ELSE votes[i]]
    IN  SelectSeq(left, LAMBDA e : e.votes > 0)

\* detectKey() of the variant that keeps keyVotes as counters: up by one for
\* the label appended to keyVoteHistory, down by one for the label shifted out,
\* nothing rebuilt; consensus and histogram are read off keyVotes as before
detectKeyIncremental(kd) ==
    IF collecting(kd.noteHistory)
    THEN [kd |-> kd, result |-> CollectingData]
    ELSE
    LET r == detectKey(kd)
        history == r.kd.keyVoteHistory
        appended == tally(kd.keyVotes, r.result.key)
        votes == IF Len(kd.keyVoteHistory) + 1 > maxKeyVotes
                 THEN untally(appended, kd.keyVoteHistory[1])
                 ELSE appended
        consensus == consensusFrom(votes, 0, [consensusKey |-> r.result.key, maxVotes |-> 0])
        consensusConfidence ==
            IF Len(history) > 0 THEN Round(consensus.maxVotes * 100, Len(history)) ELSE 0
    IN  [kd |-> [kd EXCEPT !.keyVoteHistory = history, !.keyVotes = votes],
         result |-> [key |-> r.result.key,
                     confidence |-> r.result.confidence,
                     consensusKey |-> consensus.consensusKey,
                     consensusConfidence |-> consensusConfidence,
                     histogram |-> voteHistogram(votes, Len(history))]]

\* the votes survive
clearNotesOnly(kd) == [kd EXCEPT !.noteHistory = <<>>]

clear(kd) == [kd EXCEPT !.noteHistory = <<>>, !.keyVotes = <<>>, !.keyVoteHistory = <<>>]

(***************************************************************************)
(* PitchDetector (the sampling buffer only)                                *)
(***************************************************************************)
DefaultFftSize == 2048
FftSizes == {512, 1024, 2048, 4096, 8192}

\* The values the fftSize attribute of a Web Audio AnalyserNode takes: a power
\* of two from 32 to 32768.  Assigning any other value raises IndexSizeError
\* and leaves the attribute as it was.
AnalyserSizes == {32, 64, 128, 256, 512, 1024, 2048, 4096, 8192, 16384, 32768}

\* the assignment `this.analyser.fftSize = fftSize` raises an exception
throws(size) == size \notin AnalyserSizes

NewPitchDetector(size) ==
    [analyserFftSize |-> size, bufferLength |-> size, bufferSize |-> size]

\* PitchDetector.setFftSize: buffer = new Float32Array(bufferLength).  An
\* exception in the first assignment leaves the two others undone.
PitchSetFftSize(pd, size) ==
    IF throws(size) THEN pd
    ELSE [pd EXCEPT !.analyserFftSize = size, !.bufferLength = size, !.bufferSize = size]

(***************************************************************************)
(* PitchDetector.autoCorrelate.  A sample is an integer number of          *)
(* millionths; a frequency is a fraction <<numerator, denominator>> of Hz  *)
(* with a positive denominator, or NaN, or an infinity.  The sums stay     *)
(* within 32 bits for buffers of up to 512 samples.                        *)
(***************************************************************************)
Unit == 1000000
Thousand == 1000

Abs(x) == IF x < 0 THEN -x ELSE x

RECURSIVE Gcd(_, _)
Gcd(a, b) == IF b = 0 THEN Abs(a) ELSE Gcd(b, a % Abs(b))

\* the number num / den (den # 0), in lowest terms over a positive denominator
Finite(num, den) ==
    LET g == Gcd(num, den)
        sign == IF den < 0 THEN -1 ELSE 1
    IN  [kind |-> "finite", value |-> <<sign * (num \div g), sign * (den \div g)>>]

NoPitch == Finite(-1, 1)
NaN == [kind |-> "NaN"]
Infinity == [kind |-> "Infinity"]

\* rms < 0.01, that is, sum of squares < size * 0.0001: with every sample
\* split as 1000 a + b, the sum is 10^6 sum(a^2) + 1000 sum(2ab) + sum(b^2)
tooQuiet(buffer) ==
    LET size == Len(buffer)
        a == [i \in 1..size |-> buffer[i] \div Thousand]
        b == [i \in 1..size |-> buffer[i] % Thousand]
        aa == SumSeq([i \in 1..size |-> a[i] * a[i]], size)
        ab == SumSeq([i \in 1..size |-> 2 * a[i] * b[i]], size)
        bb == SumSeq([i \in 1..size |-> b[i] * b[i]], size)
    IN  aa + ((ab + (bb \div Thousand)) \div Thousand) < size * 100

\* maxSamples * (1 - correlation) at an offset: the summed |buffer[i] - buffer[i + offset]|
distance(buffer, offset, maxSamples) ==
    SumSeq([i \in 1..maxSamples |-> Abs(buffer[i] - buffer[i + offset])], maxSamples)

\* the value returned at bestOffset: sampleRate / (bestOffset + shift), with
\* shift = p / q the quotient of lines 57-58
interpolated(buffer, bestOffset, sampleRate) ==
    LET at(i) == buffer[i + 1]
        p == at(bestOffset + 1) - at(bestOffset - 1)
        q == 2 * (2 * at(bestOffset) - at(bestOffset - 1) - at(bestOffset + 1))
    IN  IF q = 0
        THEN IF p = 0 THEN NaN                 \* shift = 0 / 0
             ELSE Finite(0, 1)                 \* shift is an infinity
        ELSE IF bestOffset * q + p = 0 THEN Infinity
        ELSE LET g == Gcd(q, bestOffset * q + p)
             IN  Finite(sampleRate * (q \div g), (bestOffset * q + p) \div g)

\* the loop over the offsets from `offset` on; `last` is maxSamples * (1 - lastCorrelation).
\* bestCorrelation is 0 whenever it is read: the first offset that sets it returns.
RECURSIVE searchOffsets(_, _, _, _, _)
searchOffsets(buffer, sampleRate, maxSamples, offset, last) ==
    IF offset >= maxSamples
    THEN NoPitch
    ELSE LET d == distance(buffer, offset, maxSamples)
         IN  IF d < (Unit \div 10) * maxSamples /\ d < last
             THEN interpolated(buffer, offset, sampleRate)
             ELSE searchOffsets(buffer, sampleRate, maxSamples, offset + 1, d)

autoCorrelate(buffer, sampleRate) ==
    IF tooQuiet(buffer)
    THEN NoPitch
    ELSE searchOffsets(buffer, sampleRate, Len(buffer) \div 2, 1, 0)

\* a frequency above 0 that is neither NaN nor an infinity
Positive(frequency) == frequency.kind = "finite" /\ frequency.value[1] > 0

(***************************************************************************)
(* frequencyToNote.  halfSteps = 12 * Math.log2(frequency / C0) is read    *)
(* from a table, in hundred-thousandths of a half step, for the            *)
(* frequencies the model uses (keyed by the frequency in hundredths of Hz).*)
(***************************************************************************)
HalfStep == 100000

Log2Table ==
    <<<<800, -1237632>>, <<1500, -149363>>, <<26163, 4800029>>, <<39200, 5500020>>,
      <<43000, 5660200>>, <<43994, 5699764>>, <<45000, 5738906>>, <<45700, 5765629>>,
      <<51000, 5955592>>, <<52325, 5999996>>>>

\* frequency.toFixed(2), as a number of hundredths
toFixed2(frequency) ==
    LET num == frequency.value[1]
        den == frequency.value[2]
    IN  (num \div den) * 100 + Round((num % den) * 100, den)

Tabulated == {Log2Table[i][1] : i \in 1..Len(Log2Table)}

halfStepsOf(frequency) ==
    LET row == CHOOSE i \in 1..Len(Log2Table) : Log2Table[i][1] = toFixed2(frequency)
    IN  Log2Table[row][2]

\* the JavaScript remainder a % b for b > 0: it has the sign of a
Remainder(a, b) == IF a >= 0 THEN a % b ELSE -((-a) % b)

Null == [null |-> TRUE]

frequencyToNote(frequency) ==
    IF frequency.kind = "finite" /\ frequency.value[1] <= 0
    THEN Null
    ELSE LET halfSteps == halfStepsOf(frequency)
             octave == halfSteps \div (12 * HalfStep)
             noteIndex == Round(Remainder(halfSteps, 12 * HalfStep), HalfStep)
             noteName == IF noteIndex \in 0..11 THEN noteNames[noteIndex + 1] ELSE Falsy
             cents == Round(Remainder(halfSteps, HalfStep) * 100, HalfStep)
         IN  [note |-> <<noteName, octave>>, noteName |-> noteName, octave |-> octave,
              frequency |-> toFixed2(frequency), cents |-> cents]

(***************************************************************************)
(* BeatDetector                                                            *)
(***************************************************************************)
historySize == 43
beatThresholdTenths == 13       \* this.beatThreshold = 1.3
minTimeBetweenBeats == 300
maxBeatHistory == 8
maxBPMHistory == 30
MinBPM == 40
MaxBPM == 240
MsPerMinute == 60000

Zero == <<0, 1>>

\* initBeatParams(): the fields the constructor sets
initBeatParams(bd) ==
    [bd EXCEPT !.energyHistory = <<>>, !.lastBeatTime = 0, !.beatTimes = <<>>,
               !.currentBPM = Zero, !.bpmHistory = <<>>]

NewBeatDetector(size) ==
    initBeatParams(
        [analyserFftSize |-> size, bufferLength |-> size \div 2, dataArraySize |-> size \div 2,
         energyHistory |-> <<>>, lastBeatTime |-> 0, beatTimes |-> <<>>,
         currentBPM |-> Zero, bpmHistory |-> <<>>])

\* setFftSize as it was before initBeatParams was split off: it initialises
\* the beat state as well
BeatSetFftSizeAndInit(bd, size) ==
    initBeatParams([bd EXCEPT !.analyserFftSize = size, !.bufferLength = size \div 2,
                              !.dataArraySize = size \div 2])

\* BeatDetector.setFftSize: bufferLength = analyser.frequencyBinCount
BeatSetFftSize(bd, size) ==
    IF throws(size) THEN bd
    ELSE [bd EXCEPT !.analyserFftSize = size, !.bufferLength = size \div 2,
                    !.dataArraySize = size \div 2]

\* the intervals between consecutive beat times
intervals(beatTimes) == [i \in 1..(Len(beatTimes) - 1) |-> beatTimes[i + 1] - beatTimes[i]]


\* calculateBPM dividing the summed intervals by the number of beats instead of
\* the number of intervals
calculateBPMPerBeat(beatTimes) ==
    IF Len(beatTimes) < 2
    THEN Zero
    ELSE LET gaps == intervals(beatTimes)
             sum == SumSeq(gaps, Len(gaps))
             num == MsPerMinute * Len(beatTimes)
         IN  IF sum < 0 THEN <<MinBPM, 1>>
             ELSE IF sum = 0 THEN <<MaxBPM, 1>>
             ELSE IF num > MaxBPM * sum THEN <<MaxBPM, 1>>
             ELSE IF num < MinBPM * sum THEN <<MinBPM, 1>>
             ELSE <<num, sum>>

\* calculateBPM without the clamp
calculateBPMUnclamped(beatTimes) ==
    IF Len(beatTimes) < 2
    THEN Zero
    ELSE LET gaps == intervals(beatTimes)
             sum == SumSeq(gaps, Len(gaps))
             num == MsPerMinute * Len(gaps)
         IN  IF sum <= 0 THEN <<MaxBPM, 1>>
             ELSE <<num, sum>>

\* calculateBPM(): Math.max(40, Math.min(240, 60000 / averageInterval))
calculateBPM(beatTimes) ==
    IF Len(beatTimes) < 2
    THEN Zero
    ELSE LET gaps == intervals(beatTimes)
             sum == SumSeq(gaps, Len(gaps))
             num == MsPerMinute * Len(gaps)
         IN  IF sum < 0 THEN <<MinBPM, 1>>          \* a negative quotient
             ELSE IF sum = 0 THEN <<MaxBPM, 1>>     \* Infinity
             ELSE IF num > MaxBPM * sum THEN <<MaxBPM, 1>>
             ELSE IF num < MinBPM * sum THEN <<MinBPM, 1>>
             ELSE <<num, sum>>

\* 40000 * q <= y * y for q, y >= 0, computed without leaving 32 bits
SquareCovers(y, q) ==
    LET u == y \div 200
        v == y % 200
    IN  q <= u * u + ((400 * u * v + v * v) \div 40000)

\* calculateConfidence(): Math.round of 100 - 100 * stdDev / mean, clamped to
\* 0..100.  With n intervals of sum s, stdDev / mean = sqrt(n * sum(d^2) - s^2) / s,
\* and the rounded value is the greatest k with 100 * stdDev / mean <= 100.5 - k.
calculateConfidence(beatTimes) ==
    IF Len(beatTimes) < 3
    THEN 0
    ELSE LET gaps == intervals(beatTimes)
             n == Len(gaps)
             s == SumSeq(gaps, n)
             q == n * SumSeq([i \in 1..n |-> gaps[i] * gaps[i]], n) - s * s
         IN  IF s = 0 THEN 0
             ELSE IF s < 0 THEN 100
             ELSE Cardinality({k \in 1..100 : SquareCovers((201 - 2 * k) * s, q)})

\* const bucket = Math.round(bpm / 2) * 2
bucketOf(bpm) == ((bpm + 1) \div 2) * 2

RECURSIVE ascending(_)
ascending(S) ==
    IF S = {} THEN <<>>
    ELSE LET m == CHOOSE x \in S : \A y \in S : x <= y
         IN  <<m>> \o ascending(S \ {m})

byPercentage(e) == [confidence |-> e.percentage, entry |-> e]

\* getBPMHistogram(): the bucket keys are integer property names, which
\* Object.entries lists in ascending order; the sort is stable
getBPMHistogram(bpmHistory) ==
    IF Len(bpmHistory) = 0
    THEN <<>>
    ELSE LET total == Len(bpmHistory)
             buckets == {bucketOf(bpmHistory[i]) : i \in 1..total}
             keys == ascending(buckets)
             count(b) == Cardinality({i \in 1..total : bucketOf(bpmHistory[i]) = b})
             entries == [i \in 1..Len(keys) |->
                            byPercentage([bpm |-> keys[i], count |-> count(keys[i]),
                                          percentage |-> Round(count(keys[i]) * 100, total)])]
             sorted == sortDescending(entries, 0, <<>>)
         IN  [i \in 1..Len(sorted) |-> sorted[i].entry]

NotReady == [isBeat |-> FALSE, bpm |-> 0, confidence |-> 0]

\* an energy that only reaches the threshold counts as a beat
atOrAboveThreshold(energy, energyHistory) ==
    energy * 10 * Len(energyHistory)
        >= beatThresholdTenths * SumSeq(energyHistory, Len(energyHistory))

\* energy > averageEnergy * beatThreshold, the average taken over energyHistory
aboveThreshold(energy, energyHistory) ==
    energy * 10 * Len(energyHistory)
        > beatThresholdTenths * SumSeq(energyHistory, Len(energyHistory))

\* a gap of exactly minTimeBetweenBeats is let through
longEnoughAtGap(currentTime, lastBeatTime) ==
    (currentTime - lastBeatTime) >= minTimeBetweenBeats

\* (currentTime - this.lastBeatTime) > this.minTimeBetweenBeats
longEnough(currentTime, lastBeatTime) ==
    (currentTime - lastBeatTime) > minTimeBetweenBeats

\* the isBeat branch without the test of currentBPM > 0: a first beat records
\* a reading of 0
onBeatPushAlways(bd, currentTime) ==
    LET beatTimes == PushShift(bd.beatTimes, currentTime, maxBeatHistory)
        currentBPM == calculateBPM(beatTimes)
    IN  [bd EXCEPT !.lastBeatTime = currentTime,
                   !.beatTimes = beatTimes,
                   !.currentBPM = currentBPM,
                   !.bpmHistory = PushShift(bd.bpmHistory,
                                            Round(currentBPM[1], currentBPM[2]),
                                            maxBPMHistory)]

\* the isBeat branch of lines 326-345
onBeat(bd, currentTime) ==
    LET beatTimes == PushShift(bd.beatTimes, currentTime, maxBeatHistory)
        currentBPM == calculateBPM(beatTimes)
    IN  [bd EXCEPT !.lastBeatTime = currentTime,
                   !.beatTimes = beatTimes,
                   !.currentBPM = currentBPM,
                   !.bpmHistory = IF currentBPM[1] > 0
                                  THEN PushShift(bd.bpmHistory,
                                                 Round(currentBPM[1], currentBPM[2]),
                                                 maxBPMHistory)
                                  ELSE bd.bpmHistory]

\* ready one sample early
notReadyBelow42(energyHistory) == Len(energyHistory) < historySize - 1

\* if (this.energyHistory.length < this.historySize)
notReady(energyHistory) == Len(energyHistory) < historySize

\* detectBeat() with Date.now() = currentTime and getEnergy() = energy: the
\* detector after the call and the value returned
detectBeat(bd, currentTime, energy) ==
    LET energyHistory == PushShift(bd.energyHistory, energy, historySize)
        pushed == [bd EXCEPT !.energyHistory = energyHistory]
    IN  IF notReady(energyHistory)
        THEN [bd |-> pushed, result |-> NotReady]
        ELSE
        LET isBeat == aboveThreshold(energy, energyHistory)
                      /\ longEnough(currentTime, bd.lastBeatTime)
            after == IF isBeat THEN onBeat(pushed, currentTime) ELSE pushed
            bpmHistogram == getBPMHistogram(after.bpmHistory)
            bpm == Round(after.currentBPM[1], after.currentBPM[2])
        IN  [bd |-> after,
             result |-> [isBeat |-> isBeat,
                         bpm |-> bpm,
                         confidence |-> calculateConfidence(after.beatTimes),
                         consensusBPM |-> IF Len(bpmHistogram) > 0
                                          THEN bpmHistogram[1].bpm ELSE bpm,
                         consensusConfidence |-> IF Len(bpmHistogram) > 0
                                                 THEN bpmHistogram[1].percentage ELSE 0,
                         energy |-> energy,
                         histogram |-> bpmHistogram]]

\* the BPM readings survive
resetKeepsBpmHistory(bd) ==
    [bd EXCEPT !.energyHistory = <<>>, !.beatTimes = <<>>,
               !.currentBPM = Zero, !.lastBeatTime = 0]

reset(bd) ==
    [bd EXCEPT !.energyHistory = <<>>, !.beatTimes = <<>>, !.bpmHistory = <<>>,
               !.currentBPM = Zero, !.lastBeatTime = 0]

(***************************************************************************)
(* App.handleFftSizeChange                                                 *)
(***************************************************************************)
\* setFftSize(newSize) of the React state comes first; an exception raised by
\* pitchDetectorRef.current.setFftSize leaves beatDetectorRef.current.setFftSize
\* uncalled and propagates to the caller
handleFftSizeChange(app, newSize) ==
    [fftSize |-> newSize,
     pitchDetector |-> PitchSetFftSize(app.pitchDetector, newSize),
     beatDetector |-> IF throws(newSize) THEN app.beatDetector
                      ELSE BeatSetFftSize(app.beatDetector, newSize),
     threw |-> throws(newSize)]

(***************************************************************************)
(* App: the feature toggles (React state), the values of them that the     *)
(* running detection loop holds, and lastUpdateTimeRef                     *)
(***************************************************************************)
NewApp ==
    [noteDetectionEnabled |-> TRUE, keyDetectionEnabled |-> TRUE,
     beatDetectionEnabled |-> TRUE,
     loop |-> [noteDetectionEnabled |-> TRUE, keyDetectionEnabled |-> TRUE,
               beatDetectionEnabled |-> TRUE],
     lastUpdateTime |-> 0, isListening |-> FALSE]

squelchThreshold == 20
updateRate == 60

\* now - lastUpdateTimeRef.current < 1000 / updateRate
throttled(app, currentTime) ==
    (currentTime - app.lastUpdateTime) * updateRate < 1000

\* One tick of detectPitch works on st = [app, keyDetector, keyResult,
\* beatDetector, beatResult]; a frame is what the two analysers hold at the
\* tick: the frequency pitchDetector.detectPitch() returns, the volumePercent of
\* the spectrum and the bass energy.  The toggles read are the ones of the
\* render whose detectPitch startListening called: requestAnimationFrame is
\* handed that same function again.

\* the note and key block; returned = the return of the squelch check was taken
noteBlock(st, frame) ==
    LET skip == [st |-> st, calls |-> <<>>, returned |-> FALSE]
    IN  IF ~st.app.loop.noteDetectionEnabled THEN skip
        ELSE IF ~Positive(frame.frequency) THEN skip
        ELSE IF frame.volumePercent < squelchThreshold
             THEN [skip EXCEPT !.returned = TRUE]
        ELSE LET info == frequencyToNote(frame.frequency)
             IN  IF info = Null THEN skip
                 ELSE IF ~st.app.loop.keyDetectionEnabled THEN skip
                 ELSE LET r == detectKey(addNote(st.keyDetector, info.noteName))
                      IN  [st |-> [st EXCEPT !.keyDetector = r.kd,
                                            !.keyResult = r.result],
                           calls |-> <<"addNote", "detectKey">>,
                           returned |-> FALSE]

\* the beat block
beatBlock(st, frame, currentTime) ==
    IF st.app.loop.beatDetectionEnabled
    THEN LET r == detectBeat(st.beatDetector, currentTime, frame.energy)
         IN  [st |-> [st EXCEPT !.beatDetector = r.bd, !.beatResult = r.result],
              calls |-> <<"detectBeat">>]
    ELSE [st |-> st, calls |-> <<>>]

\* a tick that ran to its end: b is what the beat block made of the state
\* the note and key block left
completed(calls, b) ==
    [st |-> b.st, calls |-> calls \o b.calls, throttled |-> FALSE,
     squelched |-> FALSE]

\* the tick from the end of the note and key block n on
afterNoteBlock(n, frame, currentTime) ==
    IF n.returned
    THEN [st |-> n.st, calls |-> n.calls, throttled |-> FALSE, squelched |-> TRUE]
    ELSE completed(n.calls, beatBlock(n.st, frame, currentTime))

detectPitch(st, frame, currentTime) ==
    IF throttled(st.app, currentTime)
    THEN [st |-> st, calls |-> <<>>, throttled |-> TRUE, squelched |-> FALSE]
    ELSE afterNoteBlock(noteBlock([st EXCEPT !.app.lastUpdateTime = currentTime],
                                  frame),
                        frame, currentTime)

\* the detectors startListening makes, and the loop it starts: the toggles of
\* the render whose startListening ran
startListening(st, size) ==
    [st EXCEPT !.app.isListening = TRUE,
               !.app.loop = [noteDetectionEnabled |-> st.app.noteDetectionEnabled,
                             keyDetectionEnabled |-> st.app.keyDetectionEnabled,
                             beatDetectionEnabled |-> st.app.beatDetectionEnabled],
               !.keyDetector = NewKeyDetector,
               !.beatDetector = NewBeatDetector(size)]

(***************************************************************************)
(* The caller.  A behaviour has one caller, which makes the calls of       *)
(* `order` in turn, over and over, or any call at any time (order = <<>>): *)
(*   - the KeyDetector as App.detectPitch calls it, every addNote followed *)
(*     by one detectKey, over a stream of `lead` notes C followed by notes *)
(*     `rest` (C again, G or D), or over the notes of `stream` (C, then D, *)
(*     then C again) followed by notes `rest`;                             *)
(*   - the KeyDetector in any order, over one pitch class and the falsy    *)
(*     name, the notes coming before the first vote is cast;               *)
(*   - the BeatDetector, one detectBeat per tick of `step` ms, over a bass *)
(*     energy that repeats `pattern` (spikes over a floor, or one value    *)
(*     throughout, silence included), until the clock reaches MaxTime;     *)
(*   - both, as one tick of App.detectPitch does: addNote, detectKey,      *)
(*     detectBeat.                                                         *)
(* clear() and reset() come at any time, any number of times, from the     *)
(* callers of one estimator; the caller of both reconfigures instead       *)
(* (handleFftSizeChange, between two ticks, any number of times), with the  *)
(* sizes the FFT slider (min 512, max 8192, step 512) gives: the five      *)
(* powers of two, and 1536 for the others.  A last caller calls setFftSize *)
(* of the two detectors directly, with sizes in and out of that range.     *)
(***************************************************************************)
LeadNotes == 12
StartTime == 1000
MaxTime == 17400
LowEnergy == 100
HighEnergy == 400

Notes == {"C", "G", "D"}
\* getEnergy() while every bass bin of the analyser reads 0
Silence == 0
Energies == {Silence, LowEnergy, HighEnergy}
Rhythms ==
    {[pattern |-> <<HighEnergy, LowEnergy>>, step |-> 151],
     [pattern |-> <<HighEnergy, HighEnergy, LowEnergy, LowEnergy>>, step |-> 300],
     [pattern |-> <<HighEnergy, LowEnergy>>, step |-> 250],
     [pattern |-> <<HighEnergy, LowEnergy, LowEnergy, LowEnergy, LowEnergy, LowEnergy>>,
      step |-> 300],
     [pattern |-> <<LowEnergy>>, step |-> 300],
     [pattern |-> <<Silence>>, step |-> 300]}
Steps == {r.step : r \in Rhythms}

NewCaller ==
    [order |-> <<>>, at |-> 1, calls |-> {}, stream |-> <<>>, lead |-> 0, rest |-> "C",
     pattern |-> <<>>, step |-> 0, phase |-> 1]

\* n notes of one name
Run(noteName, n) == [i \in 1..n |-> noteName]

\* a melody that leaves C for D and comes back
Returning == Run("C", 5) \o Run("D", 6) \o Run("C", 9)

KeyCallers ==
    {[NewCaller EXCEPT !.order = <<"addNote", "detectKey">>,
                       !.calls = {"addNote", "detectKey", "clear"},
                       !.lead = LeadNotes, !.rest = n] : n \in Notes}
    \cup {[NewCaller EXCEPT !.order = <<"addNote", "detectKey">>,
                            !.calls = {"addNote", "detectKey", "clear"},
                            !.stream = Returning, !.rest = "D"]}
    \cup {[NewCaller EXCEPT !.calls = {"addNote", "detectKey", "clear"}]}

BeatCallers ==
    {[NewCaller EXCEPT !.calls = {"detectBeat", "reset"},
                       !.pattern = r.pattern, !.step = r.step] : r \in Rhythms}

AppCallers ==
    {[NewCaller EXCEPT !.order = <<"addNote", "detectKey", "detectBeat">>,
                       !.calls = {"addNote", "detectKey", "detectBeat", "handleFftSizeChange"},
                       !.lead = LeadNotes, !.rest = "G",
                       !.pattern = r.pattern, !.step = r.step] :
        r \in {x \in Rhythms : x.step = 151}}

SliderSizes == FftSizes \cup {1536}
RequestedSizes == {256, 1536, 2048, 16384}

SizeCallers == {[NewCaller EXCEPT !.calls = {"setFftSize"}]}

Callers == KeyCallers \cup BeatCallers \cup AppCallers \cup SizeCallers

\* the caller makes this call now
calling(name) ==
    /\ name \in env.calls
    /\ IF env.order = <<>> THEN TRUE
       ELSE IF name \in {env.order[i] : i \in 1..Len(env.order)} THEN env.order[env.at] = name
       ELSE env.at = 1

\* the caller after a call of its order
called(name) ==
    IF env.order # <<>> /\ env.order[env.at] = name
    THEN [env EXCEPT !.at = (@ % Len(env.order)) + 1]
    ELSE env

\* no instance to compare with yet; `dropped` records whether the clear() or
\* reset() that made the instance found votes or BPM readings to drop
Unused == [on |-> FALSE]

\* no call of autoCorrelate or frequencyToNote
NoCall == [fn |-> "none"]

Init ==
    /\ keyDetector = NewKeyDetector
    /\ keyResult = NoResult
    /\ freshKeyDetector = Unused
    /\ incrementalKeyDetector = [kd |-> NewKeyDetector, result |-> NoResult]
    /\ beatDetector = NewBeatDetector(DefaultFftSize)
    /\ beatResult = NoResult
    /\ freshBeatDetector = Unused
    /\ pitchDetector = NewPitchDetector(DefaultFftSize)
    /\ fftSize = DefaultFftSize
    /\ now = StartTime
    /\ lastOp = [name |-> "new"]
    /\ env \in Callers
    /\ appState = NewApp
    /\ call = NoCall
    /\ pitch = NoResult
    /\ noteInfo = NoResult

\* the note the stream holds next
nextNote ==
    IF env.stream # <<>> THEN Head(env.stream)
    ELSE IF env.lead > 0 THEN "C" ELSE env.rest

AddNote(noteName) ==
    /\ calling("addNote")
    /\ IF env.order = <<>>
       THEN noteName \in {nextNote, Falsy} /\ keyDetector.keyVoteHistory = <<>>
       ELSE noteName = nextNote
    /\ keyDetector' = addNote(keyDetector, noteName)
    /\ freshKeyDetector' =
            IF freshKeyDetector.on
            THEN [freshKeyDetector EXCEPT !.kd = addNote(@, noteName)]
            ELSE freshKeyDetector
    /\ incrementalKeyDetector' = [incrementalKeyDetector EXCEPT !.kd = addNote(@, noteName)]
    /\ env' = [called("addNote") EXCEPT
                    !.stream = IF @ # <<>> THEN Tail(@) ELSE @,
                    !.lead = IF env.stream = <<>> /\ @ > 0 THEN @ - 1 ELSE @]
    /\ lastOp' = [name |-> "addNote", noteName |-> noteName]
    /\ UNCHANGED <<keyResult, beatVars, pitchDetector, fftSize, now>>
    /\ UNCHANGED <<appState, pureVars>>

DetectKey ==
    /\ calling("detectKey")
    /\ LET r == detectKey(keyDetector)
       IN  /\ keyDetector' = r.kd
           /\ keyResult' = r.result
    /\ freshKeyDetector' =
            IF freshKeyDetector.on
            THEN LET f == detectKey(freshKeyDetector.kd)
                 IN  [freshKeyDetector EXCEPT !.kd = f.kd, !.result = f.result]
            ELSE freshKeyDetector
    /\ incrementalKeyDetector' = detectKeyIncremental(incrementalKeyDetector.kd)
    /\ env' = called("detectKey")
    /\ lastOp' = [name |-> "detectKey"]
    /\ UNCHANGED <<beatVars, pitchDetector, fftSize, now>>
    /\ UNCHANGED <<appState, pureVars>>

Clear ==
    /\ "clear" \in env.calls
    /\ keyDetector' = clear(keyDetector)
    /\ freshKeyDetector' = [on |-> TRUE, kd |-> NewKeyDetector, result |-> NoResult,
                            dropped |-> keyDetector.keyVoteHistory # <<>>]
    /\ incrementalKeyDetector' = [incrementalKeyDetector EXCEPT !.kd = clear(@)]
    /\ lastOp' = [name |-> "clear"]
    /\ UNCHANGED <<keyResult, beatVars, pitchDetector, fftSize, now, env>>
    /\ UNCHANGED <<appState, pureVars>>

DetectBeat(energy, elapsed) ==
    /\ calling("detectBeat")
    /\ now + elapsed <= MaxTime
    /\ elapsed = env.step
    /\ energy = env.pattern[env.phase]
    /\ now' = now + elapsed
    /\ LET r == detectBeat(beatDetector, now', energy)
       IN  /\ beatDetector' = r.bd
           /\ beatResult' = r.result
    /\ freshBeatDetector' =
            IF freshBeatDetector.on
            THEN LET f == detectBeat(freshBeatDetector.bd, now', energy)
                 IN  [freshBeatDetector EXCEPT !.bd = f.bd, !.result = f.result]
            ELSE freshBeatDetector
    /\ env' = [called("detectBeat") EXCEPT !.phase = (@ % Len(env.pattern)) + 1]
    /\ lastOp' = [name |-> "detectBeat", energy |-> energy, currentTime |-> now']
    /\ UNCHANGED <<keyVars, pitchDetector, fftSize>>
    /\ UNCHANGED <<appState, pureVars>>

Reset ==
    /\ "reset" \in env.calls
    /\ beatDetector' = reset(beatDetector)
    /\ freshBeatDetector' = [on |-> TRUE,
                             bd |-> NewBeatDetector(beatDetector.analyserFftSize),
                             result |-> NoResult,
                             dropped |-> beatDetector.bpmHistory # <<>>]
    /\ lastOp' = [name |-> "reset"]
    /\ UNCHANGED <<keyVars, beatResult, pitchDetector, fftSize, now, env>>
    /\ UNCHANGED <<appState, pureVars>>

HandleFftSizeChange(newSize) ==
    /\ calling("handleFftSizeChange")
    /\ LET app == handleFftSizeChange(
                      [fftSize |-> fftSize, pitchDetector |-> pitchDetector,
                       beatDetector |-> beatDetector], newSize)
       IN  /\ fftSize' = app.fftSize
           /\ pitchDetector' = app.pitchDetector
           /\ beatDetector' = app.beatDetector
           /\ lastOp' = [name |-> "handleFftSizeChange", size |-> newSize,
                         threw |-> app.threw]
    /\ UNCHANGED <<keyVars, beatResult, freshBeatDetector, now, env>>
    /\ UNCHANGED <<appState, pureVars>>

PitchDetectorSetFftSize(size) ==
    /\ calling("setFftSize")
    /\ pitchDetector' = PitchSetFftSize(pitchDetector, size)
    /\ lastOp' = [name |-> "PitchDetector.setFftSize", size |-> size, threw |-> throws(size)]
    /\ UNCHANGED <<keyVars, beatVars, fftSize, now, env>>
    /\ UNCHANGED <<appState, pureVars>>

BeatDetectorSetFftSize(size) ==
    /\ calling("setFftSize")
    /\ beatDetector' = BeatSetFftSize(beatDetector, size)
    /\ lastOp' = [name |-> "BeatDetector.setFftSize", size |-> size, threw |-> throws(size)]
    /\ UNCHANGED <<keyVars, beatResult, freshBeatDetector, pitchDetector, fftSize, now, env>>
    /\ UNCHANGED <<appState, pureVars>>

Next ==
    \/ \E noteName \in Notes \cup {Falsy} : AddNote(noteName)
    \/ DetectKey
    \/ Clear
    \/ \E energy \in Energies, elapsed \in Steps : DetectBeat(energy, elapsed)
    \/ Reset
    \/ \E size \in SliderSizes : HandleFftSizeChange(size)
    \/ \E size \in RequestedSizes : PitchDetectorSetFftSize(size)
    \/ \E size \in RequestedSizes : BeatDetectorSetFftSize(size)

Spec == Init /\ [][Next]_vars

(***************************************************************************)
(* autoCorrelate and frequencyToNote on their own: one call, on a buffer   *)
(* or a frequency chosen at the start.  The buffers are every buffer of    *)
(* SmallSize samples out of -0.5, 0, 0.5, and two buffers of 512 samples   *)
(* of a 440 Hz wave of amplitude 1 sampled at 44100 Hz, starting at phase  *)
(* 0 (a sine) and at its crest (a cosine); on these two frequencyToNote    *)
(* is applied to what autoCorrelate returned, as App.detectPitch does.     *)
(***************************************************************************)
SmallSize == 8
SampleRate == 44100

\* round(10^6 * sin(2 pi 440 k / 44100)) for k = 0..511
Sine440 ==
    <<
      0, 62648, 125051, 186961, 248138, 308339, 367330, 424877, 480755, 534744,
      586632, 636216, 683300, 727699, 769240, 807759, 843104, 875137, 903732, 928777,
      950172, 967835, 981695, 991699, 997806, 999994, 998252, 992589, 983027, 969602,
      952369, 931393, 906759, 878562, 846914, 811938, 773773, 732567, 688484, 641696,
      592386, 540750, 486989, 431315, 373946, 315108, 255032, 193955, 132115, 69756,
      7124, -55537, -117980, -179959, -241231, -301555, -360695, -418417, -474496, -528710,
      -580848, -630703, -678081, -722795, -764669, -803539, -839252, -871668, -900660, -926113,
      -947927, -966018, -980313, -990758, -997309, -999943, -998648, -993430, -984309, -971321,
      -954517, -933963, -909740, -881942, -850680, -816076, -778266, -737398, -693633, -647143,
      -598111, -546728, -493198, -437731, -380543, -321861, -261914, -200938, -139173, -76861,
      -14247, 48423, 110903, 172947, 234311, 294755, 354041, 411936, 468213, 522650,
      575034, 625159, 672828, 717854, 760059, 799278, 835357, 868155, 897541, 923402,
      945634, 964152, 978882, 989766, 996762, 999841, 998993, 994220, 985541, 972990,
      956617, 936485, 912674, 885278, 854403, 820172, 782719, 742191, 698747, 652557,
      603804, 552679, 499383, 444125, 387122, 328598, 268783, 207912, 146224, 83962,
      21370, -41306, -103820, -165926, -227380, -287940, -347370, -405435, -461907, -516564,
      -569192, -619583, -667541, -712876, -755410, -794977, -831420, -864597, -894377, -920644,
      -943294, -962237, -977401, -988724, -996164, -999689, -999287, -994960, -986723, -974610,
      -958668, -938960, -915562, -888568, -858083, -824227, -787133, -746946, -703825, -657939,
      -609468, -558602, -505542, -450496, -393680, -335317, -275637, -214874, -153267, -91058,
      -28491, 34188, 96732, 158897, 220437, 281111, 340681, 398912, 455577, 510451,
      563320, 613976, 662220, 707862, 750723, 790635, 827441, 860996, 891168, 917839,
      940905, 960274, 975870, 987633, 995515, 999486, 999531, 995649, 987855, 976180,
      960670, 941386, 918404, 891814, 861720, 828240, 791507, 751664, 708868, 663287,
      615100, 564497, 511676, 456844, 400218, 342020, 282478, 221826, 160303, 98150,
      35611, -27067, -89639, -151859, -213483, -274268, -333975, -392370, -449224, -504312,
      -557420, -608337, -656865, -702812, -745998, -786253, -823419, -857351, -887914, -914988,
      -938468, -958261, -974290, -986491, -994816, -999233, -999724, -996287, -988937, -977701,
      -962624, -943766, -921199, -895014, -865312, -832211, -795840, -756343, -713874, -668601,
      -620701, -570363, -517783, -463170, -406737, -348706, -289305, -228767, -167331, -105237,
      -42730, 19945, 82542, 144814, 206518, 267410, 327252, 385807, 442848, 498148,
      551491, 602668, 651477, 697727, 741235, 781831, 819356, 853662, 884614, 912091,
      935984, 956201, 972660, 985299, 994066, 998928, 999866, 996875, 989968, 979172,
      964529, 946097, 923948, 898169, 868861, 836140, 800134, 760984, 718845, 673881,
      626271, 576199, 523865, 469472, 413234, 355373, 296116, 235696, 174350, 112318,
      49846, -12822, -75440, -137762, -199542, -260539, -320512, -379225, -436449, -491958,
      -545535, -596968, -646056, -692606, -736435, -777370, -815252, -849930, -881270, -909147,
      -933453, -954091, -970981, -984057, -993266, -998573, -999957, -997413, -990950, -980594,
      -966385, -948380, -926649, -901278, -872365, -840026, -804386, -765586, -723779, -679128,
      -631808, -582007, -529919, -475750, -419711, -362023, -302913, -242613, -181360, -119394,
      -56959, 5699, 68335, 130703, 192557, 253655, 313756, 372624, 430029, 485744,
      539551, 591238, 640602, 687450, 731597, 772869, 811105, 846155, 877881, 906157,
      930874, 951933, 969253, 982765, 992415, 998167, 999998, 997899, 991881, 981965,
      968192, 950615, 929304, 904341, 875826, 843870, 808598, 770150, 728676, 684339,
      637314, 587785, 535947, 482003, 426166, 368654, 309694, 249518, 188361, 126464,
      64070, 1425, -61226, -123637, -185562, -246757, -306984, -366004, -423586, -479505,
      -533539, -585478, -635116, -682259, -726721, -768329, -806918, -842337, -874447, -903121,
      -928248, -949727, -967475, -981423, -991514, -997711, -999988, -998336, -992762, -983287,
      -969950, -952802, -931911, -907359, -879242, -847670, -812769, -774674, -733536, -689516,
      -642788, -593534, -541948, -488233, -432600, -375267, -316460, -256410, -195352, -133527,
      -71178, -8548, 54114, 116565, 178557, 239848, 300196, 359365, 417123, 473241,
      527501, 579688>>

\* round(10^6 * cos(2 pi 440 k / 44100)) for k = 0..511
Cosine440 ==
    <<
      1000000, 998036, 992150, 982367, 968725, 951276, 930091, 905251, 876855, 845014,
      809854, 771511, 730138, 685896, 638960, 589513, 537750, 483875, 428098, 370640,
      311726, 251587, 190459, 128584, 66203, 3562, -59093, -121516, -183461, -244686,
      -304949, -364014, -421650, -477628, -531730, -583744, -633464, -680695, -725252, -766959,
      -805654, -841184, -873408, -902202, -927450, -949056, -966932, -981010, -991234, -997564,
      -999975, -998457, -993016, -983674, -970468, -953449, -932684, -908255, -880258, -848802,
      -814012, -776024, -734987, -691063, -644423, -595252, -543743, -490097, -434525, -377247,
      -318487, -258475, -197448, -135645, -73309, -10685, 51980, 114442, 176454, 237772,
      298157, 357370, 415179, 471357, 525684, 577945, 627935, 675459, 720329, 762369,
      801414, 837310, 869917, 899106, 924763, 946787, 965091, 979604, 990268, 997042,
      999899, 998827, 993831, 984931, 972162, 955573, 935230, 911213, 883616, 852547,
      818129, 780497, 739799, 696194, 649854, 600961, 549707, 496294, 440930, 383835,
      325231, 265350, 204426, 142699, 80412, 17809, -44865, -107362, -169437, -230847,
      -291350, -350708, -408688, -465063, -519610, -572117, -622375, -670189, -715369, -757739,
      -797133, -833394, -866381, -895965, -922029, -944470, -963201, -978148, -989252, -996469,
      -999772, -999147, -994596, -986138, -973806, -957648, -937728, -914124, -886929, -856249,
      -822205, -784931, -744573, -701290, -655252, -606640, -555644, -502466, -447313, -390403,
      -331960, -272212, -211394, -149747, -87511, -24931, 37747, 100277, 162412, 223910,
      284528, 344028, 402176, 458745, 513511, 566259, 616784, 664885, 710373, 753071,
      792811, 829436, 862802, 892778, 919248, 942105, 961262, 976642, 988185, 995846,
      999594, 999415, 995310, 987295, 975401, 959675, 940179, 916989, 890197, 859907,
      826239, 789325, 749310, 706351, 660617, 612288, 561553, 508612, 453673, 396952,
      338671, 279060, 218352, 156786, 94605, 32052, -30628, -93186, -155379, -216961,
      -277691, -337330, -395644, -452403, -507385, -560374, -611161, -659547, -705342, -748365,
      -788449, -825435, -859179, -889547, -916420, -939693, -959274, -975086, -987068, -995172,
      -999366, -999634, -995974, -988402, -976947, -961653, -942582, -919808, -893419, -863521,
      -830231, -793678, -754008, -711375, -665948, -617904, -567433, -514733, -460010, -403480,
      -345365, -285893, -225298, -163818, -101694, -39171, 23506, 86091, 148338, 210002,
      270840, 330615, 389091, 446038, 501233, 554459, 605507, 654175, 700274, 743621,
      784047, 821393, 855512, 886270, 913545, 937232, 957237, 973481, 985901, 994447,
      999087, 999801, 996588, 989459, 978443, 963583, 944937, 922579, 896597, 867092,
      834181, 797992, 758668, 716364, 671245, 623490, 573285, 520827, 466324, 409988,
      352042, 292712, 232233, 170841, 108778, 46288, -16384, -78992, -141289, -203031,
      -263976, -323884, -382519, -439651, -495056, -548517, -599822, -648771, -695171, -738840,
      -779606, -817309, -851802, -882948, -910625, -934724, -955152, -971827, -984684, -993672,
      -998757, -999918, -997150, -990465, -979889, -965463, -947245, -925304, -899729, -870619,
      -838088, -802265, -763290, -721316, -676509, -629044, -579107, -526895, -472614, -416475,
      -358700, -299517, -239156, -177856, -115857, -53403, 9261, 71888, 134233, 196051,
      257098, 317136, 375927, 433242, 488854, 542546, 594107, 643333, 690032, 734020,
      775125, 813184, 848048, 879581, 907658, 932169, 953018, 970123, 983417, 992847,
      998376, 999984, 997662, 991422, 981286, 967295, 949504, 927982, 902815, 874101,
      841953, 806497, 767873, 726232, 681738, 634565, 584900, 532937, 478879, 422941,
      365341, 306306, 246067, 184862, 122930, 60515, -2137, -64781, -127171, -189060,
      -250208, -310372, -369316, -426810, -482627, -536548, -588361, -637863, -684859, -729164,
      -770604, -809017, -844252, -876169, -904645, -929567, -950836, -968370, -982100, -991971,
      -997945, -999999, -998124, -992328, -982633, -969077, -951715, -930613, -905856, -877539,
      -845775, -810689, -772417, -731111, -686932, -640055, -590663, -538951, -485121, -429386,
      -371963, -313079, -252965, -191858, -129996, -67624, -4987, 57671, 120101, 182060,
      243304, 303592, 362687, 420357, 476376, 530523, 582586, 632360, 679650, 724270,
      766044, 804809, 840412, 872713, 901586, 926917, 948606, 966568, 980733, 991045,
      997464, 999963, 998535, 993183, 983930, 970811, 953877, 933197, 908850, 880933,
      849555, 814839>>

SmallBuffers == [1..SmallSize -> {-(Unit \div 2), 0, Unit \div 2}]
Waves == {Sine440, Cosine440}
Frequencies == {Finite(hundredths, 100) : hundredths \in Tabulated} \cup {Finite(0, 1), Finite(-1, 1)}

PureCalls ==
    {[fn |-> "autoCorrelate", buffer |-> b, sampleRate |-> SampleRate,
      frequency |-> NoResult] : b \in SmallBuffers \cup Waves}
    \cup {[fn |-> "frequencyToNote", buffer |-> <<>>, sampleRate |-> SampleRate,
           frequency |-> f] : f \in Frequencies}

PureInit ==
    /\ keyDetector = NewKeyDetector
    /\ keyResult = NoResult
    /\ freshKeyDetector = Unused
    /\ incrementalKeyDetector = [kd |-> NewKeyDetector, result |-> NoResult]
    /\ beatDetector = NewBeatDetector(DefaultFftSize)
    /\ beatResult = NoResult
    /\ freshBeatDetector = Unused
    /\ pitchDetector = NewPitchDetector(DefaultFftSize)
    /\ fftSize = DefaultFftSize
    /\ now = StartTime
    /\ lastOp = [name |-> "new"]
    /\ env = NewCaller
    /\ appState = NewApp
    /\ call \in PureCalls
    /\ pitch = NoResult
    /\ noteInfo = NoResult

AutoCorrelate ==
    /\ call.fn = "autoCorrelate"
    /\ pitch = NoResult
    /\ pitch' = autoCorrelate(call.buffer, call.sampleRate)
    /\ lastOp' = [name |-> "autoCorrelate"]
    /\ UNCHANGED <<keyVars, beatVars, pitchDetector, fftSize, now, env, appState, call,
                   noteInfo>>

\* frequencyToNote(frequency), on the frequency of the call or on the one
\* autoCorrelate returned for a wave
FrequencyToNote ==
    /\ noteInfo = NoResult
    /\ IF call.fn = "frequencyToNote"
       THEN noteInfo' = frequencyToNote(call.frequency)
       ELSE /\ call.buffer \in Waves
            /\ pitch # NoResult
            /\ noteInfo' = frequencyToNote(pitch)
    /\ lastOp' = [name |-> "frequencyToNote"]
    /\ UNCHANGED <<keyVars, beatVars, pitchDetector, fftSize, now, env, appState, call,
                   pitch>>

PureNext == AutoCorrelate \/ FrequencyToNote

PureSpec == PureInit /\ [][PureNext]_vars

(***************************************************************************)
(* The App while it listens.  startListening makes the detectors and runs  *)
(* the first tick of detectPitch; every later tick is an animation frame,  *)
(* TickSteps ms after the one before.  A frame holds no pitch, or the note *)
(* C at a volume below or above the squelch threshold; the bass energy     *)
(* follows the caller's pattern, one entry per reading.  The toggle        *)
(* buttons and the stop button exist only while the App listens.           *)
(***************************************************************************)
QuietVolume == 10
LoudVolume == 30
AppMaxTime == 1060

TickSteps == {10, 20}

Frames ==
    {[frequency |-> NoPitch, volumePercent |-> 0],
     [frequency |-> Finite(26163, 100), volumePercent |-> QuietVolume],
     [frequency |-> Finite(26163, 100), volumePercent |-> LoudVolume]}

TickCaller ==
    [NewCaller EXCEPT !.calls = {"detectPitch"},
                      !.pattern = <<HighEnergy, LowEnergy>>]

AppInit ==
    /\ keyDetector = NewKeyDetector
    /\ keyResult = NoResult
    /\ freshKeyDetector = Unused
    /\ incrementalKeyDetector = [kd |-> NewKeyDetector, result |-> NoResult]
    /\ beatDetector = NewBeatDetector(DefaultFftSize)
    /\ beatResult = NoResult
    /\ freshBeatDetector = Unused
    /\ pitchDetector = NewPitchDetector(DefaultFftSize)
    /\ fftSize = DefaultFftSize
    /\ now = StartTime
    /\ lastOp = [name |-> "new"]
    /\ env = TickCaller
    /\ appState = NewApp
    /\ call = NoCall
    /\ pitch = NoResult
    /\ noteInfo = NoResult

\* the App's refs and state a tick works on
appRefs ==
    [app |-> appState, keyDetector |-> keyDetector, keyResult |-> keyResult,
     beatDetector |-> beatDetector, beatResult |-> beatResult]

\* the frame with the bass energy the analyser holds
heard(frame) ==
    [frequency |-> frame.frequency, volumePercent |-> frame.volumePercent,
     energy |-> env.pattern[env.phase]]

\* the state after a tick, r being what detectPitch made of the refs
Ticked(r, frame, from) ==
    /\ appState' = r.st.app
    /\ keyDetector' = r.st.keyDetector
    /\ keyResult' = r.st.keyResult
    /\ beatDetector' = r.st.beatDetector
    /\ beatResult' = r.st.beatResult
    /\ env' = IF Count(r.calls, "detectBeat") > 0
              THEN [env EXCEPT !.phase = (@ % Len(env.pattern)) + 1]
              ELSE env
    /\ lastOp' = [name |-> "detectPitch", from |-> from, calls |-> r.calls,
                  throttled |-> r.throttled, squelched |-> r.squelched,
                  frame |-> frame]

StartListening(frame, elapsed) ==
    /\ ~appState.isListening
    /\ now + elapsed <= AppMaxTime
    /\ now' = now + elapsed
    /\ pitchDetector' = NewPitchDetector(fftSize)
    /\ Ticked(detectPitch(startListening(appRefs, fftSize), heard(frame), now + elapsed),
              heard(frame), "startListening")
    /\ UNCHANGED <<freshKeyDetector, incrementalKeyDetector, freshBeatDetector, fftSize,
                   pureVars>>

Tick(frame, elapsed) ==
    /\ appState.isListening
    /\ now + elapsed <= AppMaxTime
    /\ now' = now + elapsed
    /\ Ticked(detectPitch(appRefs, heard(frame), now + elapsed),
              heard(frame), "requestAnimationFrame")
    /\ UNCHANGED <<freshKeyDetector, incrementalKeyDetector, freshBeatDetector,
                   pitchDetector, fftSize, pureVars>>

StopListening ==
    /\ appState.isListening
    /\ appState' = [appState EXCEPT !.isListening = FALSE]
    /\ lastOp' = [name |-> "stopListening"]
    /\ UNCHANGED <<keyVars, beatVars, pitchDetector, fftSize, now, env, pureVars>>

ToggleNoteDetection ==
    /\ appState.isListening
    /\ appState' = [appState EXCEPT !.noteDetectionEnabled = ~@]
    /\ lastOp' = [name |-> "toggleNoteDetection"]
    /\ UNCHANGED <<keyVars, beatVars, pitchDetector, fftSize, now, env, pureVars>>

ToggleKeyDetection ==
    /\ appState.isListening
    /\ appState' = [appState EXCEPT !.keyDetectionEnabled = ~@]
    /\ keyDetector' = IF ~appState.keyDetectionEnabled THEN clear(keyDetector)
                      ELSE keyDetector
    /\ lastOp' = [name |-> "toggleKeyDetection"]
    /\ UNCHANGED <<keyResult, freshKeyDetector, incrementalKeyDetector, beatVars,
                   pitchDetector, fftSize, now,
                   env, pureVars>>

ToggleBeatDetection ==
    /\ appState.isListening
    /\ appState' = [appState EXCEPT !.beatDetectionEnabled = ~@]
    /\ beatDetector' = IF ~appState.beatDetectionEnabled THEN reset(beatDetector)
                       ELSE beatDetector
    /\ lastOp' = [name |-> "toggleBeatDetection"]
    /\ UNCHANGED <<keyVars, beatResult, freshBeatDetector, pitchDetector, fftSize, now,
                   env, pureVars>>

AppNext ==
    \/ \E frame \in Frames, elapsed \in TickSteps : StartListening(frame, elapsed)
    \/ \E frame \in Frames, elapsed \in TickSteps : Tick(frame, elapsed)
    \/ StopListening
    \/ ToggleNoteDetection
    \/ ToggleKeyDetection
    \/ ToggleBeatDetection

AppSpec == AppInit /\ [][AppNext]_vars

(***************************************************************************)
(* The claims                                                              *)
(***************************************************************************)
noteHistory == keyDetector.noteHistory
keyVoteHistory == keyDetector.keyVoteHistory
energyHistory == beatDetector.energyHistory
beatTimes == beatDetector.beatTimes
bpmHistory == beatDetector.bpmHistory

AllOf(n, x) == [i \in 1..n |-> x]

\* the history that results from appending item under oldest-first eviction
Pushed(old, item, capacity) ==
    IF Len(old) = capacity THEN Tail(old) \o <<item>> ELSE old \o <<item>>

\* a history is left alone, or one item is appended under oldest-first eviction
Fifo(old, new, capacity) ==
    \/ new = old
    \/ new # <<>> /\ new = Pushed(old, new[Len(new)], capacity)

\* C1: after any sequence of addNote / detectKey / clear and detectBeat /
\* setFftSize / reset calls no history exceeds its capacity: noteHistory holds at
\* most 50 entries, keyVoteHistory 30, energyHistory 43, beatTimes 8, bpmHistory 30.
C1_HistoriesWithinCapacity ==
    /\ Len(noteHistory) <= 50
    /\ Len(keyVoteHistory) <= 30
    /\ Len(energyHistory) <= 43
    /\ Len(beatTimes) <= 8
    /\ Len(bpmHistory) <= 30

\* the five histories are full at once, each after evictions
C1_Witness ==
    /\ lastOp.name = "detectBeat"
    /\ noteHistory = AllOf(50, "G")
    /\ Len(keyVoteHistory) = 30
    /\ Len(energyHistory) = 43
    /\ Len(beatTimes) = 8
    /\ Len(bpmHistory) = 30
    /\ env.rest = "G"

\* C2: eviction is oldest-first in all five histories: an append to a history at
\* capacity gives the old history without its first element, followed by the new
\* element; nothing else is removed or reordered, and below capacity nothing is
\* evicted.
C2_EvictionOldestFirst ==
    [][/\ (lastOp'.name = "addNote" /\ lastOp'.noteName # Falsy)
            => keyDetector'.noteHistory = Pushed(noteHistory, lastOp'.noteName, maxHistory)
       /\ lastOp'.name = "detectKey"
            => /\ keyDetector'.noteHistory = noteHistory
               /\ Fifo(keyVoteHistory, keyDetector'.keyVoteHistory, maxKeyVotes)
       /\ lastOp'.name = "detectBeat"
            => /\ beatDetector'.energyHistory
                    = Pushed(energyHistory, lastOp'.energy, historySize)
               /\ Fifo(beatTimes, beatDetector'.beatTimes, maxBeatHistory)
               /\ Fifo(bpmHistory, beatDetector'.bpmHistory, maxBPMHistory)
      ]_vars

\* notes and votes of two kinds each, after the first notes were evicted, and
\* beat times and BPM readings after evictions
C2_Witness ==
    /\ lastOp.name = "detectBeat"
    /\ Len(noteHistory) = 50
    /\ Count(noteHistory, "C") \in 1..(LeadNotes - 1)
    /\ noteHistory[50] = "G"
    /\ Len(keyVoteHistory) = 30
    /\ keyVoteHistory[1] # keyVoteHistory[30]
    /\ Len(energyHistory) = 43
    /\ Len(beatTimes) = 8
    /\ beatTimes[1] > StartTime + historySize * env.step

\* the fields of a BeatDetector that a reconfiguration may change
SamplingFields == {"analyserFftSize", "bufferLength", "dataArraySize"}

\* C3: for every buffer length of 512, 1024, 2048, 4096, 8192 and every
\* reachable state, PitchDetector.setFftSize, BeatDetector.setFftSize and
\* App.handleFftSizeChange leave noteHistory, keyVoteHistory, energyHistory,
\* beatTimes, bpmHistory, lastBeatTime and currentBPM as they are; only the
\* analyser size, bufferLength and the sampling buffer change.
C3_ReconfigurePreservesHistories ==
    [][/\ \A size \in FftSizes :
            /\ \A f \in (DOMAIN beatDetector) \ SamplingFields :
                    BeatSetFftSize(beatDetector, size)[f] = beatDetector[f]
            /\ BeatSetFftSize(beatDetector, size).bufferLength = size \div 2
            /\ PitchSetFftSize(pitchDetector, size).bufferLength = size
       /\ (lastOp'.name = "handleFftSizeChange" /\ lastOp'.size \in FftSizes)
            => /\ keyDetector' = keyDetector
               /\ \A f \in (DOMAIN beatDetector) \ SamplingFields :
                    beatDetector'[f] = beatDetector[f]
               /\ pitchDetector'.bufferLength = lastOp'.size
               /\ beatDetector'.bufferLength = lastOp'.size \div 2
      ]_vars

\* handleFftSizeChange(8192) has run on estimators whose histories hold entries
C3_Witness ==
    /\ lastOp.name = "handleFftSizeChange"
    /\ lastOp.size = 8192
    /\ pitchDetector.bufferSize = 8192
    /\ beatDetector.dataArraySize = 4096
    /\ noteHistory # <<>>
    /\ keyVoteHistory # <<>>
    /\ Len(energyHistory) = 43
    /\ beatTimes # <<>>
    /\ bpmHistory # <<>>
    /\ beatDetector.lastBeatTime > 0
    /\ beatDetector.currentBPM # Zero

\* C4: after clear() in any reachable state, every later addNote / detectKey
\* sequence returns what a newly constructed KeyDetector returns for it.
C4_ClearIsFresh ==
    freshKeyDetector.on =>
        /\ lastOp.name = "clear" => keyDetector = NewKeyDetector
        /\ lastOp.name = "detectKey" => keyResult = freshKeyDetector.result

\* clear() dropped votes, and a later detectKey found a key
C4_Witness ==
    /\ freshKeyDetector.on
    /\ freshKeyDetector.dropped
    /\ lastOp.name = "detectKey"
    /\ keyResult # CollectingData
    /\ Len(keyVoteHistory) > 1

\* C5: reset() leaves energyHistory, beatTimes and bpmHistory empty and
\* currentBPM and lastBeatTime 0, and every later detectBeat sequence returns
\* what a newly constructed BeatDetector of the same buffer length returns for
\* the same energies and clock values.
C5_ResetIsFresh ==
    freshBeatDetector.on =>
        /\ lastOp.name = "reset"
            => /\ energyHistory = <<>>
               /\ beatTimes = <<>>
               /\ bpmHistory = <<>>
               /\ beatDetector.currentBPM = Zero
               /\ beatDetector.lastBeatTime = 0
        /\ lastOp.name = "detectBeat" => beatResult = freshBeatDetector.result

\* reset() dropped BPM readings, and a later detectBeat reported a tempo
C5_Witness ==
    /\ freshBeatDetector.on
    /\ freshBeatDetector.dropped
    /\ lastOp.name = "detectBeat"
    /\ beatResult.isBeat
    /\ beatResult.bpm > 0
    /\ beatResult.histogram # <<>>

\* C6: with fewer than 10 notes in noteHistory, detectKey returns the sentinel
\* result with confidence 0 and changes neither noteHistory nor keyVoteHistory
\* nor keyVotes.
C6_TooFewNotesNoEffect ==
    [][(lastOp'.name = "detectKey" /\ Len(noteHistory) < 10)
            => /\ keyResult'.key = "Collecting data..."
               /\ keyResult'.confidence = 0
               /\ DOMAIN keyResult' = {"key", "confidence"}
               /\ keyDetector' = keyDetector
      ]_vars

\* detectKey has answered on nine notes
C6_Witness ==
    /\ lastOp.name = "detectKey"
    /\ Len(noteHistory) = 9
    /\ keyResult = CollectingData
    /\ keyVoteHistory = <<>>

\* C7: after 50 consecutive "C" observations detectKey returns the key
\* "C Major" with a confidence above 90.
C7_FiftyCConfident ==
    (lastOp.name = "detectKey" /\ noteHistory = AllOf(50, "C"))
        => keyResult.key = "C Major" /\ keyResult.confidence > 90

\* the caller has fed nothing but "C" since the KeyDetector was constructed
OnlyC == env.rest = "C"

\* C8: with 50 "C" observations in a KeyDetector that saw nothing else, once 30
\* detectKey calls have cast their votes the consensus key is "C Major" with
\* consensus confidence 100, on that call and on every later one.
C8_ConsensusOnC ==
    (OnlyC /\ lastOp.name = "detectKey" /\ noteHistory = AllOf(50, "C")
        /\ Len(keyVoteHistory) = 30)
        => keyResult.consensusKey = "C Major" /\ keyResult.consensusConfidence = 100

\* the 50 notes came first, the 30 votes after them
C8_Witness ==
    /\ env.order = <<>>
    /\ lastOp.name = "detectKey"
    /\ noteHistory = AllOf(50, "C")
    /\ keyVoteHistory = AllOf(30, "C Major")
    /\ keyResult.consensusKey = "C Major"
    /\ keyResult.consensusConfidence = 100

\* C9: each of the first 42 detectBeat calls on a new or reset BeatDetector
\* returns the not-ready result, whatever the energy, and leaves beatTimes,
\* bpmHistory, currentBPM and lastBeatTime as they are; no beat triggers before
\* the 43rd call.
C9_WarmUp ==
    [][(lastOp'.name = "detectBeat" /\ Len(energyHistory) < 42)
            => /\ beatResult' = [isBeat |-> FALSE, bpm |-> 0, confidence |-> 0]
               /\ beatDetector'.beatTimes = beatTimes
               /\ beatDetector'.bpmHistory = bpmHistory
               /\ beatDetector'.currentBPM = beatDetector.currentBPM
               /\ beatDetector'.lastBeatTime = beatDetector.lastBeatTime
      ]_vars

\* the 42nd call after a reset that dropped BPM readings, on a high energy
C9_Witness ==
    /\ freshBeatDetector.on
    /\ freshBeatDetector.dropped
    /\ lastOp.name = "detectBeat"
    /\ lastOp.energy = HighEnergy
    /\ Len(energyHistory) = 42
    /\ beatResult = NotReady
    /\ beatTimes = <<>>

\* C10: once energyHistory is full, detectBeat triggers a beat if and only if
\* the energy is above 1.3 times the mean of energyHistory (the current sample
\* included) and at least 300 ms have passed since the last triggered beat.
C10_BeatIffSpikeAfter300 ==
    [][(lastOp'.name = "detectBeat" /\ Len(beatDetector'.energyHistory) = 43)
            => (beatResult'.isBeat
                    <=> /\ 10 * lastOp'.energy * 43
                            > 13 * SumSeq(beatDetector'.energyHistory, 43)
                        /\ lastOp'.currentTime - beatDetector.lastBeatTime >= 300)
      ]_vars

\* the bass energy has one spike every 500 ms: a high sample and a low sample
\* in turn, 250 ms apart
SpikesEvery500 == env.pattern = <<HighEnergy, LowEnergy>> /\ 2 * env.step = 500

\* C11: on an energy sequence whose spikes above the threshold are exactly
\* 500 ms apart, with no other tick above it, consecutive triggered beats are at
\* least 300 ms apart and, once 3 or more beats have triggered, detectBeat
\* reports an instantaneous bpm within 2 of 120.
C11_SpikesEvery500Give120 ==
    SpikesEvery500 =>
        /\ \A i \in 1..(Len(beatTimes) - 1) : beatTimes[i + 1] - beatTimes[i] >= 300
        /\ (lastOp.name = "detectBeat" /\ Len(beatTimes) >= 3)
                => (beatResult.bpm >= 118 /\ beatResult.bpm <= 122)

\* every spike after the warm-up triggered: eight beats 500 ms apart, 120 BPM
C11_Witness ==
    /\ SpikesEvery500
    /\ lastOp.name = "detectBeat"
    /\ beatResult.isBeat
    /\ Len(beatTimes) = 8
    /\ \A i \in 1..7 : beatTimes[i + 1] - beatTimes[i] = 500
    /\ beatResult.bpm = 120
    /\ Len(bpmHistory) > 3

\* the calls that ask for a reconfiguration
Reconfigurations == {"handleFftSizeChange", "PitchDetector.setFftSize", "BeatDetector.setFftSize"}

\* C12: a reconfiguration request with a buffer length outside 512, 1024, 2048,
\* 4096, 8192 is declined: the detectors' analyser size, bufferLength and
\* sampling buffer stay as they were, the error is reported to the caller, and
\* PitchDetector and BeatDetector are left with the same analyser size.
C12_OtherSizesDeclined ==
    [][(lastOp'.name \in Reconfigurations /\ lastOp'.size \notin FftSizes)
            => /\ lastOp'.threw
               /\ pitchDetector' = pitchDetector
               /\ beatDetector' = beatDetector
               /\ pitchDetector'.analyserFftSize = beatDetector'.analyserFftSize
      ]_vars

\* the percentages of a histogram, under the name detectKey and getBPMHistogram
\* give them
Percentages(histogram) ==
    [i \in 1..Len(histogram) |->
        IF "percentage" \in DOMAIN histogram[i]
        THEN histogram[i].percentage ELSE histogram[i].confidence]

\* |sum - 100| is at most the number of entries
SumsTo100(histogram) ==
    LET sum == SumSeq(Percentages(histogram), Len(histogram))
    IN  sum - 100 <= Len(histogram) /\ 100 - sum <= Len(histogram)

\* the histogram of the last result, if that result holds one
Returned ==
    IF lastOp.name = "detectKey" /\ "histogram" \in DOMAIN keyResult
    THEN {keyResult.histogram}
    ELSE IF lastOp.name = "detectBeat" /\ "histogram" \in DOMAIN beatResult
    THEN {beatResult.histogram}
    ELSE {}

\* C16 as stated: the percentages of every histogram detectKey or detectBeat
\* returns sum to 100, up to 1 per entry.
C16_EveryHistogramSumsTo100 == \A h \in Returned : SumsTo100(h)

\* C16: the percentages of every histogram with entries that detectKey or
\* detectBeat returns sum to 100, up to 1 per entry; a histogram without
\* entries (detectBeat before the first BPM reading) sums to 0.
C16_HistogramWithEntriesSumsTo100 ==
    \A h \in Returned :
        IF h = <<>> THEN lastOp.name = "detectBeat" /\ bpmHistory = <<>>
        ELSE SumsTo100(h)

\* a histogram of several entries whose rounded percentages do not sum to 100
C16_Witness ==
    \E h \in Returned :
        /\ Len(h) >= 2
        /\ SumSeq(Percentages(h), Len(h)) # 100

\* C17: for every buffer of samples in [-1, 1] and every positive sample rate
\* autoCorrelate returns the sentinel -1 or a finite frequency above 0: never 0,
\* another negative value, NaN or an infinity.
C17_PitchIsSentinelOrPositive ==
    (call.fn = "autoCorrelate" /\ pitch # NoResult)
        => (pitch = NoPitch \/ Positive(pitch))

\* |frequency - hz| <= by
Within(frequency, hz, by) ==
    /\ frequency.kind = "finite"
    /\ (hz - by) * frequency.value[2] <= frequency.value[1]
    /\ frequency.value[1] <= (hz + by) * frequency.value[2]

\* C18: on a buffer holding a 440 Hz sine wave sampled at 44100 Hz autoCorrelate
\* returns a frequency within 2 Hz of 440, and frequencyToNote of it gives pitch
\* class "A" with cents within 10 of 0.
C18_Sine440IsA ==
    (call.fn = "autoCorrelate" /\ call.buffer \in Waves /\ call.sampleRate = 44100)
        => /\ pitch # NoResult => Within(pitch, 440, 2)
           /\ noteInfo # NoResult
                => /\ noteInfo # Null
                   /\ noteInfo.noteName = "A"
                   /\ noteInfo.cents >= -10
                   /\ noteInfo.cents <= 10

\* the 12 pitch-class names
PitchClasses == {noteNames[i] : i \in 1..12}

\* C19: for every frequency above 0 frequencyToNote returns a noteName that is
\* one of the 12 pitch-class names; for a frequency of 0 or below it returns
\* null.
C19_NoteNameIsPitchClass ==
    (call.fn = "frequencyToNote" /\ noteInfo # NoResult)
        => IF Positive(call.frequency)
           THEN noteInfo # Null /\ noteInfo.noteName \in PitchClasses
           ELSE noteInfo = Null

\* the number of the equal-tempered note nearest to a frequency, counted in
\* half steps from C0
Nearest(frequency) == Round(halfStepsOf(frequency), HalfStep)

\* C20: for every frequency above 0 the cents frequencyToNote returns is the
\* signed deviation of the frequency from the nearest equal-tempered note, that
\* note is the one whose name and octave it returns, and the cents lies within
\* -50..50.
C20_CentsFromNearestNote ==
    (call.fn = "frequencyToNote" /\ noteInfo # NoResult /\ Positive(call.frequency))
        => LET nearest == Nearest(call.frequency)
               deviation == halfStepsOf(call.frequency) - nearest * HalfStep
           IN  /\ noteInfo # Null
               /\ noteInfo.noteName = noteNames[(nearest % 12) + 1]
               /\ noteInfo.octave = nearest \div 12
               /\ noteInfo.cents = Round(deviation * 100, HalfStep)
               /\ noteInfo.cents >= -50
               /\ noteInfo.cents <= 50

\* a tick of detectPitch that passed the update-rate throttle has just run
Ran(op) == op.name = "detectPitch" /\ ~op.throttled

\* the tick leaves the detectors and results as the two blocks, each run alone
\* on the state st the tick found, leave them
AsEachAlone(n, b) ==
    /\ keyDetector' = n.st.keyDetector
    /\ keyResult' = n.st.keyResult
    /\ beatDetector' = b.st.beatDetector
    /\ beatResult' = b.st.beatResult
    /\ lastOp'.calls = n.calls \o b.calls

\* the state a tick finds, past the throttle
Found(from) ==
    [(IF from = "startListening" THEN startListening(appRefs, fftSize) ELSE appRefs)
        EXCEPT !.app.lastUpdateTime = now']

\* C13: within one tick the note/key step and the beat step are independent:
\* whichever runs first, the tick leaves the KeyDetector and the key result as
\* the note/key step alone leaves them and the BeatDetector and the tempo result
\* as the beat step alone leaves them, and neither step keeps the other from
\* running.
C13_StepsIndependent ==
    [][Ran(lastOp')
        => AsEachAlone(noteBlock(Found(lastOp'.from), lastOp'.frame),
                       beatBlock(Found(lastOp'.from), lastOp'.frame, now'))]_vars

\* C14: on every tick that passes the update-rate throttle with beat detection
\* enabled, detectBeat is called exactly once, whether or not the volume is
\* below the squelch threshold.
C14_BeatDespiteSquelch ==
    (/\ Ran(lastOp)
     /\ appState.beatDetectionEnabled
     /\ appState.loop.beatDetectionEnabled)
        => Count(lastOp.calls, "detectBeat") = 1

\* the frame holds a note loud enough to pass the squelch
Loud(frame) ==
    Positive(frame.frequency) /\ frame.volumePercent >= squelchThreshold

\* C15: while the App listens, a tick makes no call of detectBeat when beat
\* detection is toggled off and no call of addNote or detectKey when key
\* detection is toggled off, and it makes the calls of a pipeline that is
\* toggled on (again): detectBeat once, and addNote and detectKey once on a
\* frame whose note passes the squelch, note detection being on.
C15_TogglesSwitchPipelines ==
    Ran(lastOp)
        => /\ ~appState.beatDetectionEnabled
                => Count(lastOp.calls, "detectBeat") = 0
           /\ ~appState.keyDetectionEnabled
                => /\ Count(lastOp.calls, "addNote") = 0
                   /\ Count(lastOp.calls, "detectKey") = 0
           /\ (appState.beatDetectionEnabled /\ ~lastOp.squelched)
                => Count(lastOp.calls, "detectBeat") = 1
           /\ (/\ appState.keyDetectionEnabled
               /\ appState.noteDetectionEnabled
               /\ Loud(lastOp.frame))
                => /\ Count(lastOp.calls, "addNote") = 1
                   /\ Count(lastOp.calls, "detectKey") = 1

\* C21 as stated: on every detectBeat call on which a beat triggers, one entry
\* is appended to bpmHistory, the rounded instantaneous BPM (0 with fewer than
\* 2 beat timestamps); on a call without a beat bpmHistory is unchanged.
C21_EveryBeatAppendsReading ==
    [][lastOp'.name = "detectBeat"
            => IF beatResult'.isBeat
               THEN beatDetector'.bpmHistory = Pushed(bpmHistory, beatResult'.bpm, 30)
               ELSE beatDetector'.bpmHistory = bpmHistory
      ]_vars

\* C21: on every detectBeat call on which a beat triggers with 2 or more beat
\* timestamps then held, one entry is appended to bpmHistory (the oldest of 30
\* leaving), equal to the rounded instantaneous BPM the call reports; on a beat
\* that leaves a single timestamp, and on a call without a beat, bpmHistory is
\* unchanged.
C21_BeatWithTempoAppendsReading ==
    [][lastOp'.name = "detectBeat"
            => IF beatResult'.isBeat /\ Len(beatDetector'.beatTimes) >= 2
               THEN /\ beatDetector'.bpmHistory = Pushed(bpmHistory, beatResult'.bpm, 30)
                    /\ beatResult'.bpm > 0
               ELSE beatDetector'.bpmHistory = bpmHistory
      ]_vars

\* a beat has pushed its reading into a full bpmHistory
C21_Witness ==
    /\ lastOp.name = "detectBeat"
    /\ beatResult.isBeat
    /\ Len(beatTimes) >= 2
    /\ Len(bpmHistory) = 30
    /\ bpmHistory[30] = beatResult.bpm
    /\ beatResult.bpm > 0

\* 60000 / mean gap of the beat times, clamped to 40..240, as a fraction in
\* lowest terms; the gaps of n times add up to the last time less the first
ClampedTempo(times) ==
    LET n == Len(times)
        span == times[n] - times[1]
    IN  IF 60000 * (n - 1) > 240 * span THEN Finite(240, 1)
        ELSE IF 60000 * (n - 1) < 40 * span THEN Finite(40, 1)
        ELSE Finite(60000 * (n - 1), span)

\* C22: after a triggered beat the instantaneous BPM is 60000 divided by the
\* mean of the consecutive gaps in beatTimes, clamped to 40..240, and 0 with
\* fewer than 2 timestamps; the bpm detectBeat reports is 0 or within 40..240
\* and every bpmHistory entry is within 40..240.
C22_TempoIsClampedMeanGap ==
    /\ (lastOp.name = "detectBeat" /\ beatResult.isBeat)
            => IF Len(beatTimes) < 2
               THEN beatDetector.currentBPM[1] = 0
               ELSE Finite(beatDetector.currentBPM[1], beatDetector.currentBPM[2])
                        = ClampedTempo(beatTimes)
    /\ lastOp.name = "detectBeat"
            => (beatResult.bpm = 0 \/ (beatResult.bpm >= 40 /\ beatResult.bpm <= 240))
    /\ \A i \in 1..Len(bpmHistory) : bpmHistory[i] >= 40 /\ bpmHistory[i] <= 240

\* two beats 1800 ms apart: 60000 / 1800 is below 40 and the clamp acts
C22_Witness ==
    /\ lastOp.name = "detectBeat"
    /\ beatResult.isBeat
    /\ Len(beatTimes) = 2
    /\ beatTimes[2] - beatTimes[1] = 1800
    /\ beatResult.bpm = 40
    /\ bpmHistory[Len(bpmHistory)] = 40

\* C23: beats being more than 300 ms apart, the instantaneous BPM detectBeat
\* reports, every bpmHistory entry and the consensus BPM never exceed 200, the
\* clock never running backwards.
C23_TempoAtMost200 ==
    /\ lastOp.name = "detectBeat"
            => /\ beatResult.bpm <= 200
               /\ "consensusBPM" \in DOMAIN beatResult => beatResult.consensusBPM <= 200
    /\ \A i \in 1..Len(bpmHistory) : bpmHistory[i] <= 200

\* beats 302 ms apart: 198.7 BPM, reported as 199, in the bucket 200
C23_Witness ==
    /\ lastOp.name = "detectBeat"
    /\ beatResult.isBeat
    /\ Len(beatTimes) = 8
    /\ \A i \in 1..7 : beatTimes[i + 1] - beatTimes[i] = 302
    /\ beatResult.bpm = 199
    /\ beatResult.consensusBPM = 200
    /\ bpmHistory[Len(bpmHistory)] = 199

\* the 24 candidate keys in the order detectKey evaluates them
Candidates ==
    [j \in 0..23 |->
        [label |-> noteNames[(j \div 2) + 1] \o (IF j % 2 = 0 THEN " Major" ELSE " Minor"),
         root |-> j \div 2,
         profile |-> IF j % 2 = 0 THEN majorProfile ELSE minorProfile]]

\* the correlation of candidate j with the observed note counts
Score(counts, j) == correlate(counts, Candidates[j].profile, Candidates[j].root)

\* the candidates that share the maximal correlation
Leaders ==
    LET counts == noteCounts(noteHistory)
        scores == {Score(counts, j) : j \in 0..23}
        highest == CHOOSE m \in scores : \A n \in scores : m >= n
    IN  {j \in 0..23 : Score(counts, j) = highest}

\* C24: when several of the 24 candidate keys share the maximal correlation,
\* detectKey returns as instantaneous key the one evaluated first in the order
\* C Major, C Minor, C# Major, ..., B Minor.
C24_TieKeepsEarliestKey ==
    (lastOp.name = "detectKey" /\ Len(noteHistory) >= 10)
        => \E j \in Leaders :
                /\ \A k \in Leaders : j <= k
                /\ keyResult.key = Candidates[j].label

\* twelve C and six D: C Major and C Minor share the maximum, C Major is returned
C24_Witness ==
    /\ lastOp.name = "detectKey"
    /\ Count(noteHistory, "C") = 12
    /\ Count(noteHistory, "D") = 6
    /\ Len(noteHistory) = 18
    /\ Leaders = {0, 1}
    /\ keyResult.key = "C Major"

\* the labels that have a vote in keyVoteHistory
Voted == {keyVoteHistory[i] : i \in 1..Len(keyVoteHistory)}

\* the number of votes of the label with the most votes
ModeCount ==
    LET tallies == {Count(keyVoteHistory, label) : label \in Voted}
    IN  CHOOSE m \in tallies : \A n \in tallies : m >= n

\* the percentage of the votes that count votes are
Share(count) == Round(100 * count, Len(keyVoteHistory))

\* C25: after every detectKey call with at least 10 notes the consensusKey is a
\* label with the most occurrences in keyVoteHistory, consensusConfidence is
\* 100 * modeCount / historyLength rounded, and the vote histogram lists exactly
\* the labels with a vote, each with its rounded percentage, in descending
\* order of percentage, the consensus label coming first.
C25_ConsensusIsMode ==
    (lastOp.name = "detectKey" /\ Len(noteHistory) >= 10)
        => LET h == keyResult.histogram
           IN  /\ Count(keyVoteHistory, keyResult.consensusKey) = ModeCount
               /\ keyResult.consensusConfidence = Share(ModeCount)
               /\ {h[i].key : i \in 1..Len(h)} = Voted
               /\ Len(h) = Cardinality(Voted)
               /\ \A i \in 1..Len(h) :
                        h[i].confidence = Share(Count(keyVoteHistory, h[i].key))
               /\ \A i \in 1..(Len(h) - 1) : h[i].confidence >= h[i + 1].confidence
               /\ h[1].key = keyResult.consensusKey
               /\ h[1].confidence = keyResult.consensusConfidence

\* votes over three labels, two of them sharing the most votes
C25_Witness ==
    /\ lastOp.name = "detectKey"
    /\ Len(keyVoteHistory) >= 10
    /\ Cardinality(Voted) >= 3
    /\ Cardinality({label \in Voted : Count(keyVoteHistory, label) = ModeCount}) = 2
    /\ keyResult.histogram[1].key = keyResult.consensusKey
    /\ keyResult.histogram[1].confidence = keyResult.histogram[2].confidence

\* the lags the loop of autoCorrelate examines
Lags(buffer) == 1..((Len(buffer) \div 2) - 1)

\* maxSamples * (1 - correlation) at a lag; the loop starts from correlation 1
Apart(buffer, lag) ==
    IF lag = 0 THEN 0 ELSE distance(buffer, lag, Len(buffer) \div 2)

\* the loop accepts a lag whose correlation is above 0.9 and above the one of
\* the lag before
Accepted(buffer, lag) ==
    /\ Apart(buffer, lag) < (Unit \div 10) * (Len(buffer) \div 2)
    /\ Apart(buffer, lag) < Apart(buffer, lag - 1)

\* the lags with the best correlation of those examined
BestLags(buffer) ==
    {lag \in Lags(buffer) :
        \A other \in Lags(buffer) : Apart(buffer, lag) <= Apart(buffer, other)}

\* C26: when the lag loop of autoCorrelate completes without accepting a
\* candidate and the best correlation over the examined lags is above 0.01,
\* autoCorrelate returns sampleRate / bestOffset for the lag with that best
\* correlation, not the no-pitch sentinel.
C26_FallbackToBestLag ==
    (/\ call.fn = "autoCorrelate"
     /\ pitch # NoResult
     /\ ~tooQuiet(call.buffer)
     /\ \A lag \in Lags(call.buffer) : ~Accepted(call.buffer, lag)
     /\ \E lag \in Lags(call.buffer) :
            Apart(call.buffer, lag) < 99 * (Unit \div 100) * (Len(call.buffer) \div 2))
        => \E lag \in BestLags(call.buffer) : pitch = Finite(call.sampleRate, lag)

\* the votes of the variant that counts incrementally, and what its last
\* detectKey returned
incrementalVotes == incrementalKeyDetector.kd.keyVotes
incrementalResult == incrementalKeyDetector.result

\* the labels of keyVotes with their counts
Counted(votes) == {votes[i] : i \in 1..Len(votes)}

\* keyVotes holds each label of keyVoteHistory once, with the number of its
\* occurrences, and no other label
CountsOccurrences ==
    LET votes == keyDetector.keyVotes
    IN  /\ Counted(votes) = {[key |-> label, votes |-> Count(keyVoteHistory, label)] :
                                label \in Voted}
        /\ Len(votes) = Cardinality(Voted)
        /\ SumSeq([i \in 1..Len(votes) |-> votes[i].votes], Len(votes)) = Len(keyVoteHistory)
        /\ \A i \in 1..Len(votes) : votes[i].votes > 0

\* C27 as stated: after every detectKey call keyVotes maps each label to its
\* number of occurrences in keyVoteHistory, and the variant that counts
\* incrementally returns the same consensusKey, consensusConfidence and
\* histogram as the code, votes that tie included.
C27_IncrementalReturnsTheSame ==
    (lastOp.name = "detectKey" /\ Len(noteHistory) >= 10)
        => /\ CountsOccurrences
           /\ incrementalResult.consensusKey = keyResult.consensusKey
           /\ incrementalResult.consensusConfidence = keyResult.consensusConfidence
           /\ incrementalResult.histogram = keyResult.histogram

\* C27, amended: after every detectKey call keyVotes maps each label to its
\* number of occurrences in keyVoteHistory; the variant that counts
\* incrementally holds the same counts and returns the same
\* consensusConfidence, the same histogram entries and the same sequence of
\* percentages; it returns the same consensusKey when one label alone has the
\* most votes, and the same histogram when no two labels share a percentage.
C27_IncrementalAgreesUpToTies ==
    (lastOp.name = "detectKey" /\ Len(noteHistory) >= 10)
        => LET h == keyResult.histogram
               g == incrementalResult.histogram
           IN  /\ CountsOccurrences
               /\ Counted(incrementalVotes) = Counted(keyDetector.keyVotes)
               /\ Len(incrementalVotes) = Len(keyDetector.keyVotes)
               /\ incrementalKeyDetector.kd.keyVoteHistory = keyVoteHistory
               /\ incrementalResult.consensusConfidence = keyResult.consensusConfidence
               /\ Counted(g) = Counted(h)
               /\ Len(g) = Len(h)
               /\ \A i \in 1..Len(h) : g[i].confidence = h[i].confidence
               /\ Cardinality({label \in Voted : Count(keyVoteHistory, label) = ModeCount}) = 1
                    => incrementalResult.consensusKey = keyResult.consensusKey
               /\ (\A i, j \in 1..Len(h) : i # j => h[i].confidence # h[j].confidence)
                    => g = h

\* a vote has left the full history and two labels tie for the most votes: the
\* code names the one that comes first in the history, the variant the one it
\* counted first
C27_Witness ==
    /\ lastOp.name = "detectKey"
    /\ Len(keyVoteHistory) = maxKeyVotes
    /\ Cardinality({label \in Voted : Count(keyVoteHistory, label) = ModeCount}) = 2
    /\ keyResult.consensusKey = keyVoteHistory[1]
    /\ incrementalResult.consensusKey # keyResult.consensusKey
    /\ incrementalResult.consensusKey = incrementalVotes[1].key
    /\ incrementalResult.consensusConfidence = keyResult.consensusConfidence

\* C28: a note history of at least 10 entries that holds one pitch class p only
\* makes detectKey return the instantaneous key "p Major".
C28_OnePitchClassGivesItsMajor ==
    \A p \in Notes :
        (lastOp.name = "detectKey" /\ Len(noteHistory) >= 10
            /\ noteHistory = AllOf(Len(noteHistory), p))
                => keyResult.key = p \o " Major"

\* C29: while every energy sample fed to detectBeat is one constant value,
\* silence included, no detectBeat call triggers a beat, however many ticks
\* elapse: isBeat is false, beatTimes and bpmHistory stay empty and
\* lastBeatTime stays 0.
C29_ConstantEnergyNeverBeats ==
    Len(env.pattern) = 1
        => /\ lastOp.name = "detectBeat" => ~beatResult.isBeat
           /\ beatTimes = <<>>
           /\ bpmHistory = <<>>
           /\ beatDetector.lastBeatTime = 0

\* silence throughout: energyHistory is full of zeros, the clock is well past
\* the minimum gap, and detectBeat has compared 0 with the threshold 0
C29_Witness ==
    /\ lastOp.name = "detectBeat"
    /\ energyHistory = AllOf(historySize, Silence)
    /\ lastOp.currentTime - beatDetector.lastBeatTime > minTimeBetweenBeats
    /\ beatResult # NotReady
    /\ ~beatResult.isBeat

====
